---- MODULE Spec2Model ----
(***************************************************************************)
(* Model of jaxe's filter language: the nom parser of src/parser.rs, the   *)
(* tree-walking evaluator over serde_json values, and the filter pipeline  *)
(* of src/filters.rs.                                                      *)
(*                                                                         *)
(* Text is modelled as a sequence of one-character strings, so that        *)
(* tokenising, quoting, number formatting and substring search are         *)
(* computed character by character as the code computes them.              *)
(***************************************************************************)
EXTENDS Integers, Sequences, FiniteSets, TLC

VARIABLES
    pc,          \* position of the program
    source,      \* Spec: the filter source handed to parser::parse
    parsed,      \* Spec: what parser::parse returned
    target,      \* Spec: the record handed to parser::filter
    res,         \* Spec: what parser::eval / parser::filter returned
    opts_filter, \* SpecFilters: opts.filter, the -f arguments in order
    filters,     \* SpecFilters: Filters.0, the compiled pipeline
    line,        \* SpecFilters: the record of the current line
    ret,         \* SpecFilters: what Filters::apply returned for it
    history,     \* SpecFilters: every (record, result) pair seen so far
    nlines,      \* SpecFilters: number of records applied so far
    no_omit_json,\* SpecMain: opts.no_omit_json, the -j flag
    stream,      \* SpecMain: every line of standard input, in order
    stdin,       \* SpecMain: the lines not yet read
    line_buffer, \* SpecMain: the lines read into line_buffer since its last clear
    handled,     \* SpecMain: the lines whose loop iteration has completed
    stdout       \* SpecMain: what was printed, in order

main_vars == <<no_omit_json, stream, stdin, line_buffer, handled, stdout>>

vars == <<pc, source, parsed, target, res, opts_filter, filters, line, ret,
          history, nlines, main_vars>>

(***************************************************************************)
(* Text helpers                                                            *)
(***************************************************************************)
Take(s, n) == SubSeq(s, 1, n)
Drop(s, n) == SubSeq(s, n + 1, Len(s))

\* Option<T>
None == [some |-> FALSE]
Some(v) == [some |-> TRUE, v |-> v]

Lower == {"a","b","c","d","e","f","g","h","i","j","k","l","m",
          "n","o","p","q","r","s","t","u","v","w","x","y","z"}
Upper == {"A","B","C","D","E","F","G","H","I","J","K","L","M",
          "N","O","P","Q","R","S","T","U","V","W","X","Y","Z"}
DigitChars == <<"0","1","2","3","4","5","6","7","8","9">>
Digits == {DigitChars[i] : i \in 1..Len(DigitChars)}

\* nom::AsChar for char: is_alpha is ASCII alphabetic, is_dec_digit ASCII digit
is_alphanum(c) == c \in Lower \cup Upper \cup Digits

\* char::is_whitespace (White_Space): space, \t, \n, \r, form feed, ...
is_whitespace(c) == c \in {" ", "\t", "\n", "\r", "\f"}

\* what nom's multispace0 accepts: space, tab, carriage return, line feed
is_multispace(c) == c \in {" ", "\t", "\r", "\n"}

(***************************************************************************)
(* nom primitives.  A parser maps an input to Ok(rest, out) or Error; no    *)
(* parser of this grammar produces Failure or Incomplete.                  *)
(***************************************************************************)
Ok(rest, out) == [ok |-> TRUE, rest |-> rest, out |-> out]
Error == [ok |-> FALSE]

\* str::find(predicate): the first position whose character satisfies the
\* predicate, or 0; stops[i] is the predicate's answer on the i-th character
find(stops) ==
    LET hits == {i \in 1..Len(stops) : stops[i]}
    IN  IF hits = {} THEN 0 ELSE CHOOSE i \in hits : \A j \in hits : i <= j

\* InputTakeAtPosition::split_at_position_complete for &str: splits before the
\* first character satisfying the predicate, takes everything when there is
\* none, and never fails (a zero-length match is a success)
split_at_position_complete(input, stops) ==
    LET i == find(stops)
    IN  IF i = 0 THEN Ok(<<>>, input)
        ELSE Ok(Drop(input, i - 1), Take(input, i - 1))

tag(t, input) ==
    IF Len(input) >= Len(t) /\ Take(input, Len(t)) = t
    THEN Ok(Drop(input, Len(t)), t)
    ELSE Error

char(c, input) ==
    IF Len(input) >= 1 /\ input[1] = c THEN Ok(Tail(input), c) ELSE Error

multispace0(input) ==
    split_at_position_complete(input,
        [i \in 1..Len(input) |-> ~is_multispace(input[i])])

(***************************************************************************)
(* The expression tree                                                     *)
(***************************************************************************)
Equals(p, v)    == [tag |-> "Equals", path |-> p, value |-> v]
NotEquals(p, v) == [tag |-> "NotEquals", path |-> p, value |-> v]
Exists(p)       == [tag |-> "Exists", path |-> p]
Not(e)          == [tag |-> "Not", exp |-> e]
And(es)         == [tag |-> "And", exps |-> es]
Or(es)          == [tag |-> "Or", exps |-> es]
Contains(p, v)  == [tag |-> "Contains", path |-> p, value |-> v]

(***************************************************************************)
(* nom sequence combinators.  Each is applied to the result r of the       *)
(* parsers before it and to the result x of the next parser on r.rest; x is *)
(* looked at only when r is Ok.                                            *)
(***************************************************************************)
\* terminated / the dropped members of tuple and delimited: r's output kept
terminated(r, x) == IF r.ok /\ x.ok THEN Ok(x.rest, r.out) ELSE Error

\* preceded: the next parser's output kept
preceded(r, x) == IF r.ok /\ x.ok THEN x ELSE Error

\* separated_pair: both outputs kept
pair(r, x) == IF r.ok /\ x.ok THEN Ok(x.rest, <<r.out, x.out>>) ELSE Error

\* branch::alt and Result::or: the first result when Ok, otherwise the second
alt(a, b) == IF a.ok THEN a ELSE b

then_tag(r, t) == terminated(r, tag(t, r.rest))
then_char(r, c) == terminated(r, char(c, r.rest))
then_multispace0(r) == terminated(r, multispace0(r.rest))

(***************************************************************************)
(* The grammar                                                             *)
(***************************************************************************)
K_or       == <<"o","r">>
K_and      == <<"a","n","d">>
K_not      == <<"n","o","t">>
K_contains == <<"c","o","n","t","a","i","n","s">>
K_exists   == <<"e","x","i","s","t","s">>

path_segment(input) ==
    split_at_position_complete(input,
        [i \in 1..Len(input) |->
            ~is_alphanum(input[i]) /\ input[i] # "_" /\ input[i] # "-"])

\* separated_list1(tag("."), path_segment): after the first element, the loop
\* takes a separator, which must consume, and then an element; without a
\* separator, or without an element after it, the list ends before the
\* separator
RECURSIVE path_separated_list1_loop(_, _)
path_separated_list1_sep(i, acc, sep) ==
    IF ~sep.ok THEN Ok(i, acc)
    ELSE IF Len(sep.rest) = Len(i) THEN Error
    ELSE IF ~path_segment(sep.rest).ok THEN Ok(i, acc)
    ELSE path_separated_list1_loop(path_segment(sep.rest).rest,
                                   Append(acc, path_segment(sep.rest).out))

path_separated_list1_loop(i, acc) ==
    path_separated_list1_sep(i, acc, tag(<<".">>, i))

path_separated_list1(first) ==
    IF ~first.ok THEN Error
    ELSE path_separated_list1_loop(first.rest, <<first.out>>)

path(input) == path_separated_list1(path_segment(input))

unquoted_value(input) ==
    split_at_position_complete(input,
        [i \in 1..Len(input) |->
            is_whitespace(input[i]) \/ input[i] = "," \/ input[i] = ")"
            \/ input[i] = "\""])

end_quoted_string(input) ==
    split_at_position_complete(input, [i \in 1..Len(input) |-> input[i] = "\""])

then_end_quoted_string(r) == preceded(r, end_quoted_string(r.rest))

\* value with the alternatives swapped: unquoted_value never fails, so the
\* quoted form is never tried
value_unquoted_first(input) == unquoted_value(input)

value(input) ==
    alt(then_char(then_end_quoted_string(char("\"", input)), "\""),
        unquoted_value(input))

then_value(r) == pair(r, value(r.rest))

\* separated_pair(path, tuple((multispace0, tag(op), multispace0)), value)
path_op_value(op, input) ==
    then_value(then_multispace0(then_tag(then_multispace0(path(input)), op)))

to_Equals(r) == IF r.ok THEN Ok(r.rest, Equals(r.out[1], r.out[2])) ELSE Error
to_NotEquals(r) == IF r.ok THEN Ok(r.rest, NotEquals(r.out[1], r.out[2])) ELSE Error
to_Contains(r) == IF r.ok THEN Ok(r.rest, Contains(r.out[1], r.out[2])) ELSE Error
to_Exists(r) == IF r.ok THEN Ok(r.rest, Exists(r.out)) ELSE Error
to_Not(r) == IF r.ok THEN Ok(r.rest, Not(r.out)) ELSE Error
to_And(r) == IF r.ok THEN Ok(r.rest, And(r.out)) ELSE Error
to_Or(r) == IF r.ok THEN Ok(r.rest, Or(r.out)) ELSE Error

operation_equals(input) == to_Equals(path_op_value(<<"=", "=">>, input))

operation_not_equals(input) == to_NotEquals(path_op_value(<<"!", "=">>, input))

operation(input) == alt(operation_not_equals(input), operation_equals(input))

then_path(r) == preceded(r, path(r.rest))

exists(input) ==
    to_Exists(then_tag(then_path(then_tag(tag(K_exists, input), <<"(">>)), <<")">>))

comma(input) ==
    then_multispace0(then_tag(multispace0(input), <<",">>))

then_comma(r) == terminated(r, comma(r.rest))

contains(input) ==
    to_Contains(then_tag(then_value(then_comma(then_path(
        then_tag(tag(K_contains, input), <<"(">>)))), <<")">>))

RECURSIVE exp(_), exp_separated_list1_loop(_, _)

\* separated_list1(comma, exp), as for the path
exp_separated_list1_elem(i, acc, o) ==
    IF ~o.ok THEN Ok(i, acc)
    ELSE exp_separated_list1_loop(o.rest, Append(acc, o.out))

exp_separated_list1_sep(i, acc, sep) ==
    IF ~sep.ok THEN Ok(i, acc)
    ELSE IF Len(sep.rest) = Len(i) THEN Error
    ELSE exp_separated_list1_elem(i, acc, exp(sep.rest))

exp_separated_list1_loop(i, acc) ==
    exp_separated_list1_sep(i, acc, comma(i))

exp_separated_list1(first) ==
    IF ~first.ok THEN Error
    ELSE exp_separated_list1_loop(first.rest, <<first.out>>)

then_exp(r) == preceded(r, exp(r.rest))

then_exp_list(r) == preceded(r, exp_separated_list1(exp(r.rest)))

\* not with the parenthesis required right after the keyword
not_adjacent(input) ==
    to_Not(then_tag(then_exp(then_tag(tag(K_not, input), <<"(">>)), <<")">>))

not(input) ==
    to_Not(then_tag(then_exp(then_tag(then_multispace0(tag(K_not, input)),
                                      <<"(">>)), <<")">>))

and(input) ==
    to_And(then_tag(then_exp_list(then_tag(tag(K_and, input), <<"(">>)), <<")">>))

or(input) ==
    to_Or(then_tag(then_exp_list(then_tag(tag(K_or, input), <<"(">>)), <<")">>))

\* exp committing to a keyword alternative once its keyword has matched,
\* without falling back to the alternatives after it
exp_committed(input) ==
    IF tag(K_or, input).ok THEN or(input)
    ELSE IF tag(K_and, input).ok THEN and(input)
    ELSE IF tag(K_not, input).ok THEN not(input)
    ELSE IF tag(K_contains, input).ok THEN contains(input)
    ELSE IF tag(K_exists, input).ok THEN exists(input)
    ELSE operation(input)

\* branch::alt((or, and, not, contains, exists, operation))
exp(input) ==
    alt(or(input), alt(and(input), alt(not(input), alt(contains(input),
        alt(exists(input), operation(input))))))

\* anyhow::Result<Exp>
OkExp(e) == [tag |-> "Ok", exp |-> e]
Err(msg, rest) == [tag |-> "Err", msg |-> msg, rest |-> rest]

\* parse, from the result r of exp(input) on
parse_result(input, r) ==
    IF ~r.ok THEN Err("Could not parse filter", input)
    ELSE IF Len(r.rest) # 0
         THEN Err("Could not parse the complete filter", r.rest)
         ELSE OkExp(r.out)

\* parse without the check of the unconsumed rest
parse_ignoring_rest(input) ==
    IF ~exp(input).ok THEN Err("Could not parse filter", input)
    ELSE OkExp(exp(input).out)

parse(input) == parse_result(input, exp(input))

(***************************************************************************)
(* serde_json::Value.  An object is a function from its keys to values, an  *)
(* array a sequence of values; numbers are the integers (i64/u64).          *)
(***************************************************************************)
Null      == [t |-> "Null"]
Bool(b)   == [t |-> "Bool", b |-> b]
Number(n) == [t |-> "Number", n |-> n]
String(s) == [t |-> "String", s |-> s]
Array(a)  == [t |-> "Array", a |-> a]
Object(m) == [t |-> "Object", m |-> m]

\* Value::as_bool
as_bool(v) == IF v.t = "Bool" THEN Some(v.b) ELSE None

\* Option::unwrap_or
unwrap_or(o, default) == IF o.some THEN o.v ELSE default

\* bool::to_string
bool_to_string(b) ==
    IF b THEN <<"t","r","u","e">> ELSE <<"f","a","l","s","e">>

\* the decimal digits of a natural number, most significant first
RECURSIVE digits(_)
digits(n) ==
    IF n < 10 THEN <<DigitChars[n + 1]>>
    ELSE Append(digits(n \div 10), DigitChars[(n % 10) + 1])

\* Display for serde_json::Number holding an integer (itoa)
number_to_string(n) == IF n < 0 THEN <<"-">> \o digits(-n) ELSE digits(n)

\* str::parse::<usize>: an optional '+', then one or more ASCII digits
RECURSIVE digits_value(_)
digits_value(s) ==
    IF s = <<>> THEN 0
    ELSE 10 * digits_value(Take(s, Len(s) - 1))
         + (CHOOSE d \in 0..9 : DigitChars[d + 1] = s[Len(s)])

parse_usize(s) ==
    LET body == IF s # <<>> /\ s[1] = "+" THEN Tail(s) ELSE s
    IN  IF body # <<>> /\ \A i \in 1..Len(body) : body[i] \in Digits
        THEN Some(digits_value(body))
        ELSE None

\* serde_json's parse_index: RFC 6901 array indices carry no '+' and no
\* leading zero
parse_index(s) ==
    IF s # <<>> /\ (s[1] = "+" \/ (s[1] = "0" /\ Len(s) # 1))
    THEN None
    ELSE parse_usize(s)

\* Vec<String>::join(sep)
RECURSIVE join(_, _)
join(segments, sep) ==
    IF segments = <<>> THEN <<>>
    ELSE IF Len(segments) = 1 THEN segments[1]
    ELSE segments[1] \o sep \o join(Tail(segments), sep)

\* str::split(c): the pieces between the occurrences of c, empty ones kept
RECURSIVE split(_, _)
split(s, c) ==
    LET i == find([k \in 1..Len(s) |-> s[k] = c])
    IN  IF i = 0 THEN <<s>>
        ELSE <<Take(s, i - 1)>> \o split(Drop(s, i), c)

\* str::replace(from, to) for a two-character pattern
RECURSIVE replace(_, _, _)
replace(s, from, to) ==
    IF Len(s) < Len(from) THEN s
    ELSE IF Take(s, Len(from)) = from
         THEN to \o replace(Drop(s, Len(from)), from, to)
         ELSE <<s[1]>> \o replace(Tail(s), from, to)

\* the try_fold of Value::pointer over the reference tokens
RECURSIVE pointer_fold(_, _)
pointer_fold(v, tokens) ==
    IF tokens = <<>> THEN Some(v)
    ELSE LET token == Head(tokens)
         IN  IF v.t = "Object"
             THEN IF token \in DOMAIN v.m
                  THEN pointer_fold(v.m[token], Tail(tokens))
                  ELSE None
             ELSE IF v.t = "Array"
             THEN LET x == parse_index(token)
                  IN  IF x.some /\ x.v < Len(v.a)
                      THEN pointer_fold(v.a[x.v + 1], Tail(tokens))
                      ELSE None
             ELSE None

\* serde_json::Value::pointer
pointer(v, p) ==
    IF p = <<>> THEN Some(v)
    ELSE IF p[1] # "/" THEN None
    ELSE LET pieces == Tail(split(p, "/"))
             tokens == [i \in 1..Len(pieces) |->
                          replace(replace(pieces[i], <<"~","1">>, <<"/">>),
                                  <<"~","0">>, <<"~">>)]
         IN  pointer_fold(v, tokens)

(***************************************************************************)
(* The evaluator.  eval returns the value the code returns (val) and, as an *)
(* observation of the calls it makes, the positions of the operands it      *)
(* evaluated, in order (evaluated): <<2>> is the second operand of the      *)
(* expression, <<2, 1>> the first operand of that operand.                  *)
(***************************************************************************)
\* descend_to joining the segments with the path syntax's own separator
descend_to_dotted(p, v) == pointer(v, <<"/">> \o join(p, <<".">>))

descend_to(p, v) == pointer(v, <<"/">> \o join(p, <<"/">>))

\* string_value coercing null to the text "null"
string_value_null(v) ==
    CASE v.t = "Bool"   -> Some(bool_to_string(v.b))
      [] v.t = "String" -> Some(v.s)
      [] v.t = "Number" -> Some(number_to_string(v.n))
      [] v.t = "Null"   -> Some(<<"n","u","l","l">>)
      [] OTHER          -> None

string_value(v) ==
    CASE v.t = "Bool"   -> Some(bool_to_string(v.b))
      [] v.t = "String" -> Some(v.s)
      [] v.t = "Number" -> Some(number_to_string(v.n))
      [] OTHER          -> None

Evaluated(v, ev) == [val |-> v, evaluated |-> ev]

\* the operand at position i, followed by what its own evaluation visited
Visit(i, r) == <<<<i>>>> \o [j \in 1..Len(r.evaluated) |-> <<i>> \o r.evaluated[j]]

eval_equals(p, v, tgt) ==
    LET path_value == unwrap_or(descend_to(p, tgt), Null)
        sv == string_value(path_value)
    IN  IF sv.some
        THEN IF sv.v = v THEN Bool(TRUE) ELSE Bool(FALSE)
        ELSE Bool(FALSE)

\* eval_not_equals with a "not found" answer of its own
eval_not_equals_found(p, v, tgt) ==
    LET sv == string_value(unwrap_or(descend_to(p, tgt), Null))
    IN  IF sv.some /\ sv.v # v THEN Bool(TRUE) ELSE Bool(FALSE)

eval_not_equals(p, v, tgt) ==
    IF eval_equals(p, v, tgt) = Bool(TRUE) THEN Bool(FALSE) ELSE Bool(TRUE)

\* eval_exists with the unwrap_or(&Value::Null) idiom of its neighbours
eval_exists_non_null(p, tgt) ==
    IF unwrap_or(descend_to(p, tgt), Null) # Null THEN Bool(TRUE) ELSE Bool(FALSE)

eval_exists(p, tgt) ==
    IF descend_to(p, tgt).some THEN Bool(TRUE) ELSE Bool(FALSE)

\* str::starts_with in the place of str::contains
str_starts_with(s, pat) == Len(pat) <= Len(s) /\ Take(s, Len(pat)) = pat

\* str::contains(&String): pat occurs in s as a contiguous run
str_contains(s, pat) ==
    \E i \in 0..(Len(s) - Len(pat)) : SubSeq(s, i + 1, i + Len(pat)) = pat

eval_contains(p, v, tgt) ==
    LET path_value == unwrap_or(descend_to(p, tgt), Null)
        sv == string_value(path_value)
    IN  IF sv.some
        THEN IF str_contains(sv.v, v) THEN Bool(TRUE) ELSE Bool(FALSE)
        ELSE Bool(FALSE)

RECURSIVE eval(_, _), eval_and_loop(_, _, _, _), eval_or_loop(_, _, _, _)

\* eval_not, from the operand's value new_val on
eval_not_of(new_val) ==
    IF unwrap_or(as_bool(new_val.val), FALSE) = TRUE
    THEN Evaluated(Bool(FALSE), Visit(1, new_val))
    ELSE Evaluated(Bool(TRUE), Visit(1, new_val))

eval_not(e, tgt) == eval_not_of(eval(e, tgt))

\* one iteration of the for loop of eval_and: operand i gave left_val
eval_and_step(conditions, tgt, i, ev, left_val) ==
    IF unwrap_or(as_bool(left_val.val), FALSE) = FALSE
    THEN Evaluated(Bool(FALSE), ev \o Visit(i, left_val))
    ELSE eval_and_loop(conditions, tgt, i + 1, ev \o Visit(i, left_val))

\* the for loop of eval_and from operand i on
eval_and_loop(conditions, tgt, i, ev) ==
    IF i > Len(conditions) THEN Evaluated(Bool(TRUE), ev)
    ELSE eval_and_step(conditions, tgt, i, ev, eval(conditions[i], tgt))

eval_and(conditions, tgt) == eval_and_loop(conditions, tgt, 1, <<>>)

\* one iteration of the for loop of eval_or: operand i gave left_val
eval_or_step(conditions, tgt, i, ev, left_val) ==
    IF unwrap_or(as_bool(left_val.val), FALSE)
    THEN Evaluated(Bool(TRUE), ev \o Visit(i, left_val))
    ELSE eval_or_loop(conditions, tgt, i + 1, ev \o Visit(i, left_val))

\* the for loop of eval_or from operand i on
eval_or_loop(conditions, tgt, i, ev) ==
    IF i > Len(conditions) THEN Evaluated(Bool(FALSE), ev)
    ELSE eval_or_step(conditions, tgt, i, ev, eval(conditions[i], tgt))

\* eval_or without the early return: every operand is evaluated
RECURSIVE eval_or_every_loop(_, _, _, _, _)
eval_or_every_step(conditions, tgt, i, ev, any, left_val) ==
    eval_or_every_loop(conditions, tgt, i + 1, ev \o Visit(i, left_val),
                       any \/ unwrap_or(as_bool(left_val.val), FALSE))

eval_or_every_loop(conditions, tgt, i, ev, any) ==
    IF i > Len(conditions) THEN Evaluated(Bool(any), ev)
    ELSE eval_or_every_step(conditions, tgt, i, ev, any, eval(conditions[i], tgt))

eval_or_every(conditions, tgt) == eval_or_every_loop(conditions, tgt, 1, <<>>, FALSE)

eval_or(conditions, tgt) == eval_or_loop(conditions, tgt, 1, <<>>)

eval(e, tgt) ==
    CASE e.tag = "Contains"  -> Evaluated(eval_contains(e.path, e.value, tgt), <<>>)
      [] e.tag = "Or"        -> eval_or(e.exps, tgt)
      [] e.tag = "And"       -> eval_and(e.exps, tgt)
      [] e.tag = "Not"       -> eval_not(e.exp, tgt)
      [] e.tag = "Exists"    -> Evaluated(eval_exists(e.path, tgt), <<>>)
      [] e.tag = "Equals"    -> Evaluated(eval_equals(e.path, e.value, tgt), <<>>)
      [] e.tag = "NotEquals" -> Evaluated(eval_not_equals(e.path, e.value, tgt), <<>>)

\* anyhow::Result<bool>
OkBool(b) == [tag |-> "Ok", val |-> b]

filter(e, tgt) == OkBool(unwrap_or(as_bool(eval(e, tgt).val), FALSE))

(***************************************************************************)
(* Inputs.  Filter sources are texts; they are assembled from fragments so  *)
(* that every grammar rule, every separator and every terminator occurs.    *)
(***************************************************************************)
MaxLen == 4        \* longest source of the exhaustive enumeration
MaxOperands == 3   \* most operands written in an and(...) / or(...)
MaxFilters == 2    \* most -f arguments of a pipeline
MaxLines == 2      \* most records applied to one pipeline

\* every text of length 1..n over the characters of alphabet
TextsUpTo(alphabet, n) == UNION {[1..m -> alphabet] : m \in 0..n}

\* the concatenation of a sequence of texts, sep between neighbours
RECURSIVE Concat(_, _)
Concat(texts, sep) ==
    IF texts = <<>> THEN <<>>
    ELSE IF Len(texts) = 1 THEN texts[1]
    ELSE texts[1] \o sep \o Concat(Tail(texts), sep)

\* every non-empty list of at most n elements of S
ListsUpTo(S, n) == UNION {[1..m -> S] : m \in 1..n}

\* the characters of the exhaustively enumerated sources
ShortAlphabet == {"a", ".", "=", " ", "\"", ")", ","}

ShortSources == TextsUpTo(ShortAlphabet, MaxLen)

\* paths as written: [k]  [k.j]  [k..j]  [k.]  [.k]  []  [k-1_B]  [or]  [order]   ...
ParsePathTexts ==
    { <<"k">>, <<"k",".","j">>, <<"k",".",".","j">>, <<"k",".">>,
      <<".","k">>, <<>>, <<"k","-","1","_","B">>, <<"o","r">>,
      <<"o","r","d","e","r">>, <<"a","n","d">>, <<"n","o","t">>,
      <<"n","o","t","e","s">>, <<"c","o","n","t","a","i","n","s">>,
      <<"e","x","i","s","t","s">>, <<"o","r",".","k">>,
      <<"e","x","i","s","t","s",".","j">> }

\* operators as written, with and without surrounding whitespace
ParseOpTexts ==
    { <<"=","=">>, <<"!","=">>, <<" ","=","="," ">>, <<" ","!","="," ">>,
      <<"\t","=","=","\n">>, <<"=">>, <<" ">> }

\* values as written: bare, quoted, unterminated, empty
ParseValueTexts ==
    { <<"x">>, <<"x",".","y","-","z">>, <<"\"","a"," ","b","\"">>,
      <<"\"","a",")","b","\"">>, <<"\"","a",",","b","\"">>, <<"\"","\"">>,
      <<"\"","a","b">>, <<"a","\"","b">>, <<>> }

\* what may follow a complete expression
Trailers ==
    { <<>>, <<" ">>, <<")">>, <<" ","x">> }

\* what is written between a keyword and its parenthesis
Gaps ==
    { <<>>, <<" ">>, <<"\t","\n">> }

\* separators as written
CommaTexts ==
    { <<",">>, <<","," ">>, <<" ",","," ">> }

OperationSources ==
    {p \o o \o v \o t : p \in ParsePathTexts, o \in ParseOpTexts,
                        v \in ParseValueTexts, t \in Trailers}

\* operands of the combinators: [k == x]  [k != x]  [exists(j)]  [contains(k, y)]
OperandTexts ==
    { <<"k"," ","=","="," ","x">>, <<"k"," ","!","="," ","x">>,
      <<"e","x","i","s","t","s","(","j",")">>,
      <<"c","o","n","t","a","i","n","s","(","k",","," ","y",")">> }

\* keyword, gap, "(", inner, then the closing parenthesis or not, and a trailer
KeywordForms(keyword, inners) ==
    {keyword \o g \o <<"(">> \o i \o c \o t :
        g \in Gaps, i \in inners, c \in {<<")">>, <<>>}, t \in {<<>>, <<" ">>}}

KeywordSources ==
    KeywordForms(K_or, {Concat(l, c) : l \in ListsUpTo(OperandTexts, 2), c \in CommaTexts})
    \cup KeywordForms(K_and, {Concat(l, c) : l \in ListsUpTo(OperandTexts, 2), c \in CommaTexts})
    \cup KeywordForms(K_not, OperandTexts \cup {<<>>})
    \cup KeywordForms(K_exists, ParsePathTexts)
    \cup KeywordForms(K_contains,
            {p \o c \o v : p \in {<<"k">>, <<"k",".","j">>, <<>>},
                           c \in CommaTexts \cup {<<>>}, v \in ParseValueTexts})

Call(keyword, inner) == keyword \o <<"(">> \o inner \o <<")">>

\* the inside of each keyword form, as well formed
InnerOf(keyword) ==
    IF keyword = K_exists THEN <<"j">>
    ELSE IF keyword = K_contains THEN <<"k",","," ","y">>
    ELSE <<"k"," ","=","="," ","x">>

\* a keyword form, written with a gap or without, as the first operand of a
\* combinator
NestedSources ==
    {Call(outer, inner \o g \o <<"(">> \o InnerOf(inner) \o <<")">> \o rest) :
        outer \in {K_or, K_and, K_not},
        inner \in {K_or, K_and, K_not, K_contains, K_exists},
        g \in Gaps,
        rest \in {<<>>, <<","," ","k"," ","!","="," ","x">>}}

ParseSources ==
    ShortSources \cup OperationSources \cup KeywordSources \cup NestedSources

\* paths of the evaluated sources: [k]  [j]  [k.j]  [k.0]  [k.1]  [k.2]  [k.01]  [k.00]  [k ...
EvalPathTexts ==
    { <<"k">>, <<"j">>, <<"k",".","j">>, <<"k",".","0">>, <<"k",".","1">>,
      <<"k",".","2">>, <<"k",".","0","1">>, <<"k",".","0","0">>,
      <<"k",".","x">>, <<"k",".">>, <<"0">>, <<"k",".","0",".","0">> }

\* bare values of the evaluated sources
BareValueTexts ==
    { <<"x">>, <<"X">>, <<"x","y">>, <<"1">>, <<"1","1">>, <<"-","1">>,
      <<"t","r","u","e">>, <<"n","u","l","l">> }

\* what the evaluated sources write between quotes: whitespace, a comma and
\* parentheses, each of which ends a bare value, and nothing at all
QuotedBodies ==
    { <<"a",","," ","b">>, <<"b",")">>, <<"(","x"," ">>, <<>> }

Quoted(body) == <<"\"">> \o body \o <<"\"">>

EvalValueTexts == BareValueTexts \cup {Quoted(b) : b \in QuotedBodies}

AtomSources ==
    {p \o o \o v : p \in EvalPathTexts, o \in {<<" ","=","="," ">>, <<" ","!","="," ">>},
                   v \in EvalValueTexts}
    \cup {K_exists \o <<"(">> \o p \o <<")">> : p \in EvalPathTexts}
    \cup {K_contains \o <<"(">> \o p \o <<","," ">> \o v \o <<")">> :
            p \in EvalPathTexts, v \in EvalValueTexts}

CombinatorSources ==
    {Call(k, Concat(l, <<","," ">>)) :
        k \in {K_or, K_and}, l \in ListsUpTo(OperandTexts, MaxOperands)}
    \cup {Call(K_not, a) : a \in OperandTexts}
    \cup {Call(k1, Concat(<<Call(K_not, a), Call(k2, Concat(<<b, c>>, <<","," ">>))>>,
                          <<","," ">>)) :
            k1 \in {K_or, K_and}, k2 \in {K_or, K_and},
            a \in OperandTexts, b \in OperandTexts, c \in OperandTexts}

\* string values of the records
RecordStrings ==
    { <<"x">>, <<"x","y">>, <<"a","X","b">>, <<"1","1">>,
      <<"t","r","u","e">>, <<>>, <<"a",","," ","b",")">>, <<"a",","," ","b">>,
      <<"n","u","l","l">> }

RecordNumbers == {0, 1, 11, 1111, 110, -1}

Leaves ==
    {String(s) : s \in RecordStrings} \cup {Number(n) : n \in RecordNumbers}
    \cup {Bool(TRUE), Bool(FALSE), Null}

Key_k == <<"k">>
Key_j == <<"j">>
EmptyObject == Object(<<>>)

Nested ==
    { EmptyObject,
      Object(Key_j :> String(<<"x">>)),
      Object(<<"0">> :> String(<<"x">>)),
      Object(<<"0","1">> :> String(<<"x">>)),
      Object(<<>> :> String(<<"x">>)),
      Array(<<>>),
      Array(<<String(<<"x">>), String(<<"x","y">>)>>),
      Array(<<Array(<<String(<<"x">>)>>), Number(1)>>),
      Array(<<Null, Number(11), Bool(TRUE)>>) }

Records ==
    {Object(Key_k :> v) : v \in Leaves \cup Nested}
    \cup { EmptyObject,
           Object((Key_k :> String(<<"x">>)) @@ (Key_j :> Null)),
           Array(<<String(<<"x">>)>>),
           String(<<"x">>),
           Null }

CombinatorRecords ==
    { EmptyObject,
      Object(Key_k :> String(<<"x">>)),
      Object(Key_k :> String(<<"x","y">>)),
      Object((Key_k :> String(<<"y">>)) @@ (Key_j :> Null)),
      Object((Key_k :> Number(1)) @@ (Key_j :> Bool(FALSE))) }

PipelineSources == OperandTexts \cup {<<"k"," ","=","="," ","x"," ">>}

(***************************************************************************)
(* Spec / SpecParse: one filter source is parsed and, when it parses, the   *)
(* expression is evaluated on one record (parser::parse, parser::eval and   *)
(* parser::filter, as main and the tests call them).                        *)
(***************************************************************************)
NoResult == [tag |-> "None"]

MainIdle ==
    /\ no_omit_json = FALSE
    /\ stream = <<>>
    /\ stdin = <<>>
    /\ line_buffer = <<>>
    /\ handled = <<>>
    /\ stdout = <<>>

PipelineIdle ==
    /\ MainIdle
    /\ opts_filter = <<>>
    /\ filters = <<>>
    /\ line = Null
    /\ ret = NoResult
    /\ history = {}
    /\ nlines = 0

Init ==
    /\ pc = "start"
    /\ \/ source \in AtomSources /\ target \in Records
       \/ source \in CombinatorSources /\ target \in CombinatorRecords
    /\ parsed = NoResult
    /\ res = NoResult
    /\ PipelineIdle

InitParse ==
    /\ pc = "start"
    /\ source \in ParseSources
    /\ target = Object(Key_k :> String(<<"x">>))
    /\ parsed = NoResult
    /\ res = NoResult
    /\ PipelineIdle

Parse ==
    /\ pc = "start"
    /\ parsed' = parse(source)
    /\ pc' = IF parsed'.tag = "Ok" THEN "parsed" ELSE "rejected"
    /\ UNCHANGED <<source, target, res, opts_filter, filters, line, ret,
                   history, nlines,
                   main_vars>>

Filter ==
    /\ pc = "parsed"
    /\ res' = [eval |-> eval(parsed.exp, target),
               filter |-> filter(parsed.exp, target)]
    /\ pc' = "filtered"
    /\ UNCHANGED <<source, parsed, target, opts_filter, filters, line, ret,
                   history, nlines,
                   main_vars>>

Next == Parse \/ Filter

Spec == Init /\ [][Next]_vars

SpecParse == InitParse /\ [][Next]_vars

(***************************************************************************)
(* SpecFilters: the pipeline of src/filters.rs.  Filters::from_opts parses  *)
(* every -f argument in order; Filters::apply is then called once per       *)
(* record.  apply returns its result and, as an observation, the indices of *)
(* the filters it applied, in order.                                        *)
(***************************************************************************)
\* the for loop of add_filters from argument i on; parse(f).unwrap() panics
\* on the first source that does not parse
RECURSIVE add_filters_loop(_, _, _)
add_filters_push(opts, i, acc, e) ==
    IF e.tag # "Ok" THEN [panicked |-> TRUE, filters |-> acc]
    ELSE add_filters_loop(opts, i + 1, Append(acc, [filter |-> e.exp]))

add_filters_loop(opts, i, acc) ==
    IF i > Len(opts) THEN [panicked |-> FALSE, filters |-> acc]
    ELSE add_filters_push(opts, i, acc, parse(opts[i]))

add_filters(opts) == add_filters_loop(opts, 1, <<>>)

JaxeFilter_apply(self, ln) == filter(self.filter, ln)

\* the for loop of Filters::apply from filter i on
RECURSIVE Filters_apply_loop(_, _, _, _)
\* one iteration: filter i answered r
Filters_apply_step(self, ln, i, applied, r) ==
    IF r.tag # "Ok"
    THEN [result |-> r, applied |-> Append(applied, i)]
    ELSE IF ~r.val
    THEN [result |-> OkBool(FALSE), applied |-> Append(applied, i)]
    ELSE Filters_apply_loop(self, ln, i + 1, Append(applied, i))

Filters_apply_loop(self, ln, i, applied) ==
    IF i > Len(self) THEN [result |-> OkBool(TRUE), applied |-> applied]
    ELSE Filters_apply_step(self, ln, i, applied, JaxeFilter_apply(self[i], ln))

\* Filters::apply without the early return: the last filter decides
RECURSIVE Filters_apply_last_loop(_, _, _, _, _)
Filters_apply_last_step(self, ln, i, applied, r) ==
    IF r.tag # "Ok"
    THEN [result |-> r, applied |-> Append(applied, i)]
    ELSE Filters_apply_last_loop(self, ln, i + 1, Append(applied, i), r.val)

Filters_apply_last_loop(self, ln, i, applied, last) ==
    IF i > Len(self) THEN [result |-> OkBool(last), applied |-> applied]
    ELSE Filters_apply_last_step(self, ln, i, applied, JaxeFilter_apply(self[i], ln))

Filters_apply_last(self, ln) == Filters_apply_last_loop(self, ln, 1, <<>>, TRUE)

Filters_apply(self, ln) == Filters_apply_loop(self, ln, 1, <<>>)

ParseIdle ==
    /\ source = <<>>
    /\ parsed = NoResult
    /\ target = Null
    /\ res = NoResult

InitFilters ==
    /\ pc = "from_opts"
    /\ opts_filter \in {<<>>} \cup ListsUpTo(PipelineSources, MaxFilters)
    /\ filters = <<>>
    /\ line = Null
    /\ ret = NoResult
    /\ history = {}
    /\ nlines = 0
    /\ ParseIdle
    /\ MainIdle

FromOpts ==
    /\ pc = "from_opts"
    /\ LET built == add_filters(opts_filter)
       IN  /\ filters' = built.filters
           /\ pc' = IF built.panicked THEN "panicked" ELSE "loop"
    /\ UNCHANGED <<source, parsed, target, res, opts_filter, line, ret,
                   history, nlines,
                   main_vars>>

Apply ==
    /\ pc = "loop"
    /\ nlines < MaxLines
    /\ \E r \in CombinatorRecords :
        /\ line' = r
        /\ ret' = Filters_apply(filters, r)
        /\ history' = history \cup {<<r, ret'.result>>}
    /\ nlines' = nlines + 1
    /\ UNCHANGED <<pc, source, parsed, target, res, opts_filter, filters,
                   main_vars>>

NextFilters == FromOpts \/ Apply

SpecFilters == InitFilters /\ [][NextFilters]_vars

(***************************************************************************)
(* SpecMain: the loop of main in src/main.rs.  The pipeline is built once,  *)
(* then each iteration reads one line of standard input into line_buffer,   *)
(* deserialises the buffer, hands a JSON value to write_formatted_line or    *)
(* prints other text as it is, and clears the buffer.  A line is modelled   *)
(* by what serde_json::from_str makes of it: the value it deserialises to,  *)
(* or its text when it is not JSON.                                         *)
(***************************************************************************)
MaxStream == 2     \* most lines of one input stream

TextLine(text) == [kind |-> "text", text |-> text]
JsonLine(v) == [kind |-> "json", value |-> v]

\* the lines of the input streams: text that is not JSON, objects the
\* filters accept or reject, and JSON values that are not objects
StreamLines ==
    { TextLine(<<"h","i">>),
      JsonLine(Object(Key_k :> String(<<"x">>))),
      JsonLine(Object((Key_k :> String(<<"y">>)) @@ (Key_j :> Null))),
      JsonLine(EmptyObject),
      JsonLine(Number(1)),
      JsonLine(Array(<<String(<<"x">>)>>)) }

Streams == {<<>>} \cup ListsUpTo(StreamLines, MaxStream)

\* the -f arguments of the runs: none, one, two, and one that does not parse
MainFilterArgs ==
    { <<>>,
      << <<"k"," ","=","="," ","x">> >>,
      << <<"k"," ","!","="," ","x">> >>,
      << <<"k"," ","=","="," ","x">>, <<"e","x","i","s","t","s","(","j",")">> >>,
      << <<"k"," ","=","="," ","x"," ">> >> }

\* serde_json::from_str(&line_buffer): the buffer deserialises when it holds
\* exactly one line and that line is JSON
from_str(buffer) ==
    IF Len(buffer) = 1 /\ buffer[1].kind = "json"
    THEN [tag |-> "Ok", json |-> buffer[1].value]
    ELSE [tag |-> "Err"]

\* serde_json::from_value::<HashMap<String, Value>>(line)
from_value(ln) ==
    IF ln.t = "Object" THEN [tag |-> "Ok", json |-> ln.m] ELSE [tag |-> "Err"]

\* write_formatted_line, from the answer of filters.apply(&line) on: an
\* error is propagated, a rejected line returns Ok(()) with nothing printed,
\* an accepted line is converted to a map (an error when it is not an
\* object), formatted and printed
write_formatted_line_applied(ln, applied) ==
    IF applied.tag # "Ok" THEN [tag |-> "Err", printed |-> <<>>]
    ELSE IF ~applied.val THEN [tag |-> "Ok", printed |-> <<>>]
    ELSE IF from_value(ln).tag # "Ok" THEN [tag |-> "Err", printed |-> <<>>]
    ELSE [tag |-> "Ok",
          printed |-> <<[kind |-> "formatted", json |-> from_value(ln).json]>>]

write_formatted_line(self, ln) ==
    write_formatted_line_applied(ln, Filters_apply(self, ln).result)

InitMain ==
    /\ pc = "from_opts"
    /\ opts_filter \in MainFilterArgs
    /\ no_omit_json \in BOOLEAN
    /\ stream \in Streams
    /\ stdin = stream
    /\ line_buffer = <<>>
    /\ handled = <<>>
    /\ stdout = <<>>
    /\ filters = <<>>
    /\ line = Null
    /\ ret = NoResult
    /\ history = {}
    /\ nlines = 0
    /\ ParseIdle

\* handle.read_line(&mut line_buffer): Ok(0) at the end of input ends the
\* loop; otherwise the line is appended to the buffer
ReadLine ==
    /\ pc = "loop"
    /\ IF stdin = <<>>
       THEN /\ pc' = "finished"
            /\ UNCHANGED <<stdin, line_buffer>>
       ELSE /\ pc' = "read"
            /\ line_buffer' = Append(line_buffer, Head(stdin))
            /\ stdin' = Tail(stdin)
    /\ UNCHANGED <<source, parsed, target, res, opts_filter, filters, line,
                   ret, history, nlines, no_omit_json, stream, handled, stdout>>

\* the rest of the iteration, from the result w of write_formatted_line on
\* when the buffer is JSON: unwrap() panics on an error; otherwise what was
\* printed is on standard output and the buffer is cleared
HandleJson(w) ==
    IF w.tag # "Ok"
    THEN /\ pc' = "panicked"
         /\ UNCHANGED <<line_buffer, handled, stdout>>
    ELSE /\ pc' = "loop"
         /\ stdout' = stdout \o w.printed
         /\ handled' = handled \o line_buffer
         /\ line_buffer' = <<>>

\* the rest of the iteration when the buffer is not JSON: it is printed as
\* it is unless -j was given, and the buffer is cleared
HandleText ==
    /\ pc' = "loop"
    /\ stdout' = IF ~no_omit_json
                 THEN Append(stdout, [kind |-> "raw", text |-> line_buffer])
                 ELSE stdout
    /\ handled' = handled \o line_buffer
    /\ line_buffer' = <<>>

\* one iteration after read_line: from_str, then write_formatted_line with
\* the answer of filters.apply, or the text branch; line_buffer.clear()
HandleLine ==
    /\ pc = "read"
    /\ \E json \in {from_str(line_buffer)} :
        IF json.tag = "Ok"
        THEN /\ line' = json.json
             /\ \E applied \in {Filters_apply(filters, json.json).result} :
                    HandleJson(write_formatted_line_applied(json.json, applied))
        ELSE /\ line' = line
             /\ HandleText
    /\ UNCHANGED <<source, parsed, target, res, opts_filter, filters, ret,
                   history, nlines, no_omit_json, stream, stdin>>

NextMain == FromOpts \/ ReadLine \/ HandleLine

\* the program is sequential: whatever step is next is taken
SpecMain ==
    /\ InitMain
    /\ [][NextMain]_vars
    /\ WF_vars(ReadLine) /\ WF_vars(HandleLine)

(***************************************************************************)
(* Reference notions the properties are stated with.  They are written      *)
(* over paths, records and texts directly, without the pointer text and     *)
(* without the evaluator's coercion.                                        *)
(***************************************************************************)
Min(S) == CHOOSE x \in S : \A y \in S : x <= y

Front(s) == Take(s, Len(s) - 1)
Last(s) == s[Len(s)]

DigitName(d) ==
    CASE d = 0 -> "0" [] d = 1 -> "1" [] d = 2 -> "2" [] d = 3 -> "3"
      [] d = 4 -> "4" [] d = 5 -> "5" [] d = 6 -> "6" [] d = 7 -> "7"
      [] d = 8 -> "8" [] d = 9 -> "9"

\* the decimal text of an integer: a minus sign for a negative one, no
\* leading zero
RECURSIVE DecimalText(_)
DecimalText(n) ==
    IF n < 0 THEN <<"-">> \o DecimalText(-n)
    ELSE IF n < 10 THEN <<DigitName(n)>>
    ELSE DecimalText(n \div 10) \o <<DigitName(n % 10)>>

AllDigits(seg) == seg # <<>> /\ \A i \in 1..Len(seg) : \E d \in 0..9 : seg[i] = DigitName(d)

\* a digit string without its leading zeros ("0" for a string of zeros)
RECURSIVE StripZeros(_)
StripZeros(seg) ==
    IF Len(seg) > 1 /\ seg[1] = "0" THEN StripZeros(Tail(seg)) ELSE seg

IsScalar(v) == v.t \in {"Bool", "String", "Number"}

\* the text form of a boolean, a string or a number
TextForm(v) ==
    CASE v.t = "Bool"   -> IF v.b THEN <<"t","r","u","e">> ELSE <<"f","a","l","s","e">>
      [] v.t = "String" -> v.s
      [] v.t = "Number" -> DecimalText(v.n)

\* s occurs in t as a contiguous run of characters
IsSubtext(t, s) ==
    \E i \in 0..Len(t) : \E j \in i..Len(t) : SubSeq(t, i + 1, j) = s

\* the indices of array a that segment seg selects: the index whose decimal
\* text is seg
IndexHits(a, seg) == {n \in 0..(Len(a) - 1) : DecimalText(n) = seg}

\* the indices seg selects when any digit string is read as a number
IndexHitsAnyDigits(a, seg) ==
    {n \in 0..(Len(a) - 1) : AllDigits(seg) /\ DecimalText(n) = StripZeros(seg)}

\* descending a path through a record, segment by segment
RECURSIVE Descend(_, _)
Descend(p, v) ==
    IF p = <<>> THEN Some(v)
    ELSE IF v.t = "Object"
         THEN IF Head(p) \in DOMAIN v.m THEN Descend(Tail(p), v.m[Head(p)]) ELSE None
    ELSE IF v.t = "Array"
         THEN IF IndexHits(v.a, Head(p)) # {}
              THEN Descend(Tail(p), v.a[Min(IndexHits(v.a, Head(p))) + 1])
              ELSE None
    ELSE None

\* the paths an expression mentions
RECURSIVE PathsOf(_)
PathsOf(e) ==
    IF e.tag \in {"Equals", "NotEquals", "Contains", "Exists"} THEN {e.path}
    ELSE IF e.tag = "Not" THEN PathsOf(e.exp)
    ELSE UNION {PathsOf(e.exps[i]) : i \in 1..Len(e.exps)}

SegmentChars == Lower \cup Upper \cup Digits \cup {"_", "-"}

\* the positions of the expression's own operands among those evaluated
TopLevel(ev) == SelectSeq(ev, LAMBDA pos : Len(pos) = 1)

Filtered(tg) == pc = "filtered" /\ parsed.exp.tag = tg

(***************************************************************************)
(* Properties                                                              *)
(***************************************************************************)

\* C1: parse returns an expression only when the grammar consumed the whole
\* source; when the top-level expression parses and any character, whitespace
\* included, is left over, parse returns an error and no expression.
ParseConsumesWholeSource ==
    pc # "start" =>
        LET r == exp(source)
        IN  /\ (parsed.tag = "Ok") = (r.ok /\ r.rest = <<>>)
            /\ parsed.tag = "Ok" => parsed.exp = r.out
            /\ (r.ok /\ r.rest # <<>>) =>
                   (parsed.tag = "Err" /\ "exp" \notin DOMAIN parsed)

\* a complete expression followed by one blank is rejected
TrailingBlankRejected ==
    /\ pc = "rejected"
    /\ exp(source).ok
    /\ exp(source).rest = <<" ">>

\* C2: Filters::apply returns Ok(true) exactly when every filter, in
\* declaration order, is true of the record; it returns Ok(false) at the
\* first false filter and applies none after it; it never returns an error;
\* the same record gets the same answer whatever was applied before; the
\* empty pipeline accepts.
PipelineIsOrderedConjunction ==
    (pc = "loop" /\ nlines > 0) =>
        LET falses == {i \in 1..Len(filters) : ~filter(filters[i].filter, line).val}
            stop == IF falses = {} THEN Len(filters) ELSE Min(falses)
        IN  /\ ret.result.tag = "Ok"
            /\ ret.result.val = (falses = {})
            /\ ret.applied = [i \in 1..stop |-> i]
            /\ filters = <<>> => ret.result = OkBool(TRUE)
            /\ \A h \in history : h[1] = line => h[2] = ret.result

\* a two-filter pipeline rejects at its first filter and skips the second,
\* after having accepted an earlier record
RejectedAtFirstFilter ==
    /\ pc = "loop"
    /\ nlines > 0
    /\ Len(filters) = 2
    /\ ret.result = OkBool(FALSE)
    /\ ret.applied = <<1>>
    /\ \E h \in history : h[2] = OkBool(TRUE)

\* C3: Equals(path, lit) is true exactly when the path resolves to a boolean,
\* a string or a number whose text form is lit, and false when the path does
\* not resolve or resolves to an object, an array or null.
EqualsComparesTextForm ==
    Filtered("Equals") =>
        LET d == Descend(parsed.exp.path, target)
            holds == d.some /\ IsScalar(d.v) /\ TextForm(d.v) = parsed.exp.value
        IN  /\ res.filter = OkBool(holds)
            /\ res.eval.val = Bool(holds)

\* a number equal to the literal by its decimal text
EqualsOnNumberTrue ==
    /\ Filtered("Equals")
    /\ Descend(parsed.exp.path, target).some
    /\ Descend(parsed.exp.path, target).v.t = "Number"
    /\ Len(parsed.exp.value) > 1
    /\ res.filter = OkBool(TRUE)

\* C4: NotEquals(p, v) on r is the negation of Equals(p, v) on r; it is true
\* when the path is absent or resolves to an object, an array or null.
NotEqualsNegatesEquals ==
    Filtered("NotEquals") =>
        LET d == Descend(parsed.exp.path, target)
            eq == filter(Equals(parsed.exp.path, parsed.exp.value), target)
        IN  /\ res.filter = OkBool(~eq.val)
            /\ (~d.some \/ ~IsScalar(d.v)) => res.filter = OkBool(TRUE)

\* NotEquals on a path the record does not have
NotEqualsOnAbsentPath ==
    /\ Filtered("NotEquals")
    /\ ~Descend(parsed.exp.path, target).some
    /\ res.filter = OkBool(TRUE)

\* C5: Exists(p) is true if and only if descending p through the record
\* resolves to a value, an explicit null included.
ExistsIffResolves ==
    Filtered("Exists") =>
        /\ res.filter = OkBool(Descend(parsed.exp.path, target).some)
        /\ res.eval.val = Bool(Descend(parsed.exp.path, target).some)

\* Exists on a path that holds an explicit null
ExistsOnNull ==
    /\ Filtered("Exists")
    /\ Descend(parsed.exp.path, target) = Some(Null)
    /\ res.filter = OkBool(TRUE)

\* C6: Contains(path, substr) is true exactly when the path resolves to a
\* boolean, a string or a number whose text form contains substr as a
\* contiguous, case-sensitive run, and false when the path does not resolve
\* or resolves to an object, an array or null.
ContainsSearchesTextForm ==
    Filtered("Contains") =>
        LET d == Descend(parsed.exp.path, target)
            holds == d.some /\ IsScalar(d.v)
                     /\ IsSubtext(TextForm(d.v), parsed.exp.value)
        IN  /\ res.filter = OkBool(holds)
            /\ res.eval.val = Bool(holds)

\* a number whose decimal text has the literal inside it, not at its start
ContainsInsideNumber ==
    /\ Filtered("Contains")
    /\ Descend(parsed.exp.path, target).some
    /\ Descend(parsed.exp.path, target).v.t = "Number"
    /\ parsed.exp.value # <<>>
    /\ ~str_starts_with(TextForm(Descend(parsed.exp.path, target).v), parsed.exp.value)
    /\ res.filter = OkBool(TRUE)

\* C7: And and Or evaluate their operands left to right and stop at the
\* deciding one: And is false at the first false operand and true only if
\* all are true, Or is true at the first true operand and false only if all
\* are false, and no operand after the deciding one is evaluated.
CombinatorsShortCircuit ==
    (pc = "filtered" /\ parsed.exp.tag \in {"And", "Or"}) =>
        LET ops == parsed.exp.exps
            deciding == (parsed.exp.tag = "Or")
            hits == {i \in 1..Len(ops) : filter(ops[i], target).val = deciding}
            stop == IF hits = {} THEN Len(ops) ELSE Min(hits)
        IN  /\ res.filter = OkBool(IF hits = {} THEN ~deciding ELSE deciding)
            /\ TopLevel(res.eval.evaluated) = [i \in 1..stop |-> <<i>>]

\* an Or of three operands decided by its second, the third left alone
OrDecidedBySecondOfThree ==
    /\ Filtered("Or")
    /\ Len(parsed.exp.exps) = 3
    /\ res.filter = OkBool(TRUE)
    /\ TopLevel(res.eval.evaluated) = <<<<1>>, <<2>>>>

\* the array an Exists / Equals path ends in: the value its path without the
\* last segment resolves to, when that is an array
EndsInArray ==
    /\ pc = "filtered"
    /\ parsed.exp.tag \in {"Exists", "Equals"}
    /\ Descend(Front(parsed.exp.path), target).some
    /\ Descend(Front(parsed.exp.path), target).v.t = "Array"

\* what Exists / Equals answer when the last segment selects the indices hits
\* of array a
AnswerAt(a, hits) ==
    IF hits = {} THEN OkBool(FALSE)
    ELSE LET el == a[Min(hits) + 1]
         IN  IF parsed.exp.tag = "Exists" THEN OkBool(TRUE)
             ELSE OkBool(IsScalar(el) /\ TextForm(el) = parsed.exp.value)

\* C8 as claimed: at an array, a segment made of digits only is read as a
\* base-10 number and selects the element at that index; an index not below
\* the length, or a segment that is not all digits, does not resolve.
ArrayIndexAnyDigits ==
    EndsInArray =>
        LET a == Descend(Front(parsed.exp.path), target).v.a
        IN  res.filter = AnswerAt(a, IndexHitsAnyDigits(a, Last(parsed.exp.path)))

\* C8 as amended: at an array, a segment that is the decimal text of a
\* number (digits only, no leading zero unless it is "0") selects the
\* element at that index; an index not below the length, a segment that is
\* not all digits, or one with a leading zero, does not resolve.
ArrayIndexDecimalText ==
    EndsInArray =>
        LET a == Descend(Front(parsed.exp.path), target).v.a
        IN  res.filter = AnswerAt(a, IndexHits(a, Last(parsed.exp.path)))

\* Equals on the second element of an array
EqualsOnSecondElement ==
    /\ EndsInArray
    /\ parsed.exp.tag = "Equals"
    /\ Last(parsed.exp.path) = <<"1">>
    /\ res.filter = OkBool(TRUE)

\* C9: every path of a parsed expression has at least one segment and every
\* segment is a non-empty string over [A-Za-z0-9_-].
ParsedSegmentsNonEmpty ==
    parsed.tag = "Ok" =>
        \A p \in PathsOf(parsed.exp) :
            /\ Len(p) >= 1
            /\ \A i \in 1..Len(p) :
                /\ Len(p[i]) >= 1
                /\ \A j \in 1..Len(p[i]) : p[i][j] \in SegmentChars

\* what a leaf expression with literal lit answers on the record
LiteralAnswer(tg, lit) ==
    LET d == Descend(parsed.exp.path, target)
        scalar == d.some /\ IsScalar(d.v)
    IN  CASE tg = "Equals"    -> scalar /\ TextForm(d.v) = lit
          [] tg = "NotEquals" -> ~(scalar /\ TextForm(d.v) = lit)
          [] tg = "Contains"  -> scalar /\ IsSubtext(TextForm(d.v), lit)

\* the source was parsed to a tg node whose literal is body, and the record
\* was compared with body
ParsedWithLiteral(tg, body) ==
    /\ pc # "start" =>
        /\ parsed.tag = "Ok"
        /\ parsed.exp.tag = tg
        /\ parsed.exp.value = body
    /\ pc = "filtered" => res.filter = OkBool(LiteralAnswer(tg, body))

\* C10: a quoted value is the text strictly between the opening quote and
\* the next quote, whitespace, commas and parentheses included, and the
\* record is compared with exactly that text.
QuotedValueIsVerbatim ==
    \A p \in EvalPathTexts, b \in QuotedBodies :
        /\ source = p \o <<" ","=","="," ">> \o Quoted(b)
               => ParsedWithLiteral("Equals", b)
        /\ source = p \o <<" ","!","="," ">> \o Quoted(b)
               => ParsedWithLiteral("NotEquals", b)
        /\ source = Call(K_contains, p \o <<","," ">> \o Quoted(b))
               => ParsedWithLiteral("Contains", b)

\* contains with a quoted parenthesis finds it in the record's string
QuotedParenthesisFound ==
    /\ Filtered("Contains")
    /\ source = Call(K_contains, <<"k",","," ">> \o Quoted(<<"b",")">>))
    /\ res.filter = OkBool(TRUE)

\* the literals an expression mentions
RECURSIVE LiteralsOf(_)
LiteralsOf(e) ==
    IF e.tag \in {"Equals", "NotEquals", "Contains"} THEN {e.value}
    ELSE IF e.tag = "Exists" THEN {}
    ELSE IF e.tag = "Not" THEN LiteralsOf(e.exp)
    ELSE UNION {LiteralsOf(e.exps[i]) : i \in 1..Len(e.exps)}

\* no value of the source is written in quoted form
Unquoted(src) == \A i \in 1..Len(src) : src[i] # "\""

\* C11: an unquoted value has at least one character; a source whose value
\* position is empty (it ends right after == or !=, with or without
\* whitespace after the operator, or has nothing after the comma of
\* contains) is a syntax error and never an expression with an empty literal.
UnquotedValueNonEmpty ==
    (pc # "start" /\ Unquoted(source) /\ parsed.tag = "Ok") =>
        \A lit \in LiteralsOf(parsed.exp) : lit # <<>>

Blanks == {" ", "\t", "\r", "\n"}

Keywords == {K_or, K_and, K_not, K_contains, K_exists}

StartsWith(s, prefix) ==
    Len(s) >= Len(prefix) /\ Take(s, Len(prefix)) = prefix

RECURSIVE SkipBlanks(_)
SkipBlanks(s) ==
    IF s # <<>> /\ s[1] \in Blanks THEN SkipBlanks(Tail(s)) ELSE s

\* the source is keyword k, at least one blank and then an opening parenthesis
KeywordGap(k) ==
    /\ StartsWith(source, k)
    /\ StartsWith(SkipBlanks(Drop(source, Len(k))), <<"(">>)
    /\ Drop(source, Len(k))[1] \in Blanks

\* the source with the blanks after its first Len(k) characters removed
WithoutGap(k) == k \o SkipBlanks(Drop(source, Len(k)))

\* the last non-blank position before blank position i (0 when none) and the
\* first one after it (Len + 1 when none)
LeftOf(s, i) ==
    LET L == {j \in 1..(i - 1) : s[j] \notin Blanks}
    IN  IF L = {} THEN 0 ELSE CHOOSE j \in L : \A h \in L : h <= j
RightOf(s, i) ==
    LET R == {j \in (i + 1)..Len(s) : s[j] \notin Blanks}
    IN  IF R = {} THEN Len(s) + 1 ELSE CHOOSE j \in R : \A h \in R : j <= h

Operators == {<<"=", "=">>, <<"!", "=">>}

\* the blank at position i belongs to a run that touches == or != or a comma
AroundOperatorOrComma(s, i) ==
    LET l == LeftOf(s, i)
        r == RightOf(s, i)
    IN  \/ l >= 2 /\ <<s[l - 1], s[l]>> \in Operators
        \/ l >= 1 /\ s[l] = ","
        \/ r <= Len(s) /\ s[r] = ","
        \/ r + 1 <= Len(s) /\ <<s[r], s[r + 1]>> \in Operators

\* the blank at position i belongs to a run between the keyword not and "("
AfterNot(s, i) ==
    LET l == LeftOf(s, i)
        r == RightOf(s, i)
    IN  /\ l >= 3 /\ <<s[l - 2], s[l - 1], s[l]>> = K_not
        /\ r <= Len(s) /\ s[r] = "("

ParsedUnquoted == pc # "start" /\ parsed.tag = "Ok" /\ Unquoted(source)

\* C12 as claimed: in every keyword form the parenthesis immediately follows
\* the keyword, a source with whitespace between them being a syntax error;
\* whitespace is accepted only around == / != and around commas.
KeywordParenthesisAdjacent ==
    /\ \A k \in Keywords : (pc # "start" /\ KeywordGap(k)) => parsed.tag = "Err"
    /\ ParsedUnquoted =>
        \A i \in 1..Len(source) :
            source[i] \in Blanks => AroundOperatorOrComma(source, i)

\* C12 as amended: in or, and, contains and exists the parenthesis
\* immediately follows the keyword, a source with whitespace between them
\* being a syntax error; not accepts whitespace between the keyword and its
\* parenthesis and parses as the same source without it; whitespace is
\* accepted only there, around == / != and around commas.
KeywordParenthesisAdjacentButNot ==
    /\ \A k \in Keywords \ {K_not} :
        (pc # "start" /\ KeywordGap(k)) => parsed.tag = "Err"
    /\ (pc # "start" /\ KeywordGap(K_not)) =>
        /\ parsed.tag = parse(WithoutGap(K_not)).tag
        /\ parsed.tag = "Ok" => parsed.exp = parse(WithoutGap(K_not)).exp
    /\ ParsedUnquoted =>
        \A i \in 1..Len(source) :
            source[i] \in Blanks =>
                AroundOperatorOrComma(source, i) \/ AfterNot(source, i)

\* not, a blank and a parenthesised operation parse to a Not node
NotWithGapParsed ==
    /\ pc = "parsed"
    /\ source = <<"n","o","t"," ","(","k"," ","=","="," ","x",")">>
    /\ parsed.exp = Not(Equals(<<<<"k">>>>, <<"x">>))

\* the segments of a path as written: the texts between its dots
RECURSIVE Segments(_)
Segments(text) ==
    LET dots == {i \in 1..Len(text) : text[i] = "."}
    IN  IF dots = {} THEN <<text>>
        ELSE <<Take(text, Min(dots) - 1)>> \o Segments(Drop(text, Min(dots)))

\* paths whose first segment is a keyword or begins with one
KeywordPathTexts ==
    {p \in ParsePathTexts : \E k \in Keywords : StartsWith(p, k)}

\* the alternatives of exp on the source, in the order they are tried
Alternatives ==
    <<or(source), and(source), not(source), contains(source), exists(source),
      operation(source)>>

\* C13: a binary operation whose path's first segment is a keyword or begins
\* with one parses to the Equals / NotEquals node of that path and value, as
\* for any other path; a keyword alternative that fails after matching its
\* prefix consumes nothing, the result of exp being that of the first
\* alternative, in the order or, and, not, contains, exists, operation, that
\* succeeds on the whole input.
KeywordPathIsOrdinary ==
    pc # "start" =>
        /\ \A p \in KeywordPathTexts, g \in {<<>>, <<" ">>},
              v \in {<<"x">>, <<"x",".","y","-","z">>} :
            /\ source = p \o g \o <<"=","=">> \o g \o v
                   => parsed = OkExp(Equals(Segments(p), v))
            /\ source = p \o g \o <<"!","=">> \o g \o v
                   => parsed = OkExp(NotEquals(Segments(p), v))
        /\ LET hits == {i \in 1..6 : Alternatives[i].ok}
           IN  IF hits = {} THEN ~exp(source).ok
               ELSE exp(source) = Alternatives[Min(hits)]

\* a path that begins with the keyword not, in a != operation
KeywordPrefixedPathParsed ==
    /\ pc = "parsed"
    /\ source = <<"n","o","t","e","s"," ","!","="," ","x">>
    /\ parsed.exp = NotEquals(<<<<"n","o","t","e","s">>>>, <<"x">>)

\* every filter of the pipeline is true of the record
Accepted(v) ==
    \A i \in 1..Len(filters) : filter(filters[i].filter, v) = OkBool(TRUE)

\* what handling one line prints: text that is not JSON as it is, unless -j
\* was given; an accepted object formatted; nothing for a rejected record
Printed(l) ==
    IF l.kind = "text"
    THEN IF no_omit_json THEN <<>> ELSE <<[kind |-> "raw", text |-> <<l>>]>>
    ELSE IF Accepted(l.value) /\ l.value.t = "Object"
    THEN <<[kind |-> "formatted", json |-> l.value.m]>>
    ELSE <<>>

RECURSIVE PrintedAll(_)
PrintedAll(ls) ==
    IF ls = <<>> THEN <<>> ELSE Printed(Head(ls)) \o PrintedAll(Tail(ls))

\* the lines are handled in input order, each with a buffer that holds that
\* line only, and the output is what the handled lines print
MainLoopInOrder ==
    /\ handled \o line_buffer \o stdin = stream
    /\ pc \in {"loop", "finished"} => line_buffer = <<>>
    /\ pc = "read" => Len(line_buffer) = 1
    /\ stdout = PrintedAll(handled)

\* C14: for every finite input stream the main loop handles each line in
\* input order with a cleared line buffer, and once it has started it
\* eventually reaches the end of input with every line handled, whatever the
\* lines hold (text that is not JSON, a JSON value that is not an object, a
\* record the filters reject); a rejected record prints nothing.
MainHandlesEveryLine ==
    /\ [](MainLoopInOrder)
    /\ (pc = "loop") ~> (pc = "finished" /\ handled = stream)

\* no line of the stream is a JSON value that is accepted by the filters and
\* is not an object
EveryAcceptedIsObject ==
    \A i \in 1..Len(stream) :
        (stream[i].kind = "json" /\ Accepted(stream[i].value))
            => stream[i].value.t = "Object"

\* the loop reaches the end of input when no accepted value is a non-object
MainEndsOnObjects ==
    (pc = "loop" /\ EveryAcceptedIsObject) ~> (pc = "finished" /\ handled = stream)

\* the loop stopped at a JSON value that is not an object, with a line after
\* it left unread
MainStoppedBeforeLastLine ==
    /\ pc = "panicked"
    /\ Len(line_buffer) = 1
    /\ line_buffer[1].kind = "json"
    /\ stdin # <<>>

====
